---- MODULE Spec2Model ----
(***************************************************************************)
(* Session lease manager of AccountFramework/app/api.py: the serial        *)
(* request loop, the two reclaim sweeps, single and batch allocation and   *)
(* the unlock transition, over the Session, ValidateTask and               *)
(* ExperimentWebsite tables.                                               *)
(***************************************************************************)
EXTENDS Integers, Sequences, FiniteSets, Bags, TLC

\* ------------------------------------------------------------------ bounds
\* Clock: datetime.datetime.now() in hours, advanced in steps of TickHours.
MaxTime == 24
TickHours == 24
\* Largest quorum k a batch request asks for.
MaxK == 2

\* ------------------------------------------------------- program constants
TIMEOUT_EXP_SESSION == 24
AUTO_VERIFY_TIMOUT == 12
MANUAL_VERIFY_TIMOUT == 12

\* Python's None (a null column, an absent argument).
None == "None"
\* A datetime column that holds no value.
NoTime == 0 - 1

\* ------------------------------------------------------------ the pool
\* Website rows: website id -> site.
Website == <<"a.org", "b.org">>
\* The pools the store may hold.  Account rows: account id -> its website
\* and its session (1:1).
Pools == { << [website |-> 1, session |-> 1], [website |-> 1, session |-> 2] >>,
           << [website |-> 1, session |-> 1], [website |-> 2, session |-> 2] >> }
SessionIds == {1, 2}
WebsiteIds == DOMAIN Website
\* A session id no row has.
UnknownSessionId == 99

Experiments == {"expA", "expB"}
\* The decoded "experiment" field of a request: a tenant name or null.
ExperimentValues == Experiments \cup {None}

\* The worker processes of a two-worker deployment, and a worker that
\* waits in recv_string() holding no row.
Workers == {"w1", "w2"}
NoRow == [locked |-> FALSE, verified |-> FALSE, verify_type |-> "no",
          session_status |-> "expired", unlock_time |-> NoTime,
          update_time |-> 0, experiment |-> None]
Idle == [pc |-> "recv", experiment |-> None, session |-> 0, row |-> NoRow,
         granted |-> FALSE]

Sites == {Website[w] : w \in WebsiteIds}

VARIABLES
    now,                \* the wall clock
    Account,            \* Account table: id -> row
    Session,            \* Session table: id -> row
    ValidateTask,       \* ValidateTask table: session id -> number of rows
    ExperimentWebsite,  \* ExperimentWebsite table: a bag of rows
    request,            \* the request received by this step of the loop
    reply,              \* the reply sent by this step of the loop
    sent,               \* every reply socket.send_string has sent in this step
    single_leases,      \* history: sessions whose current lease was delivered
                        \* by a successful get_session reply
    worker,             \* per worker process: where it is in handle_get_session
                        \* and the locals it holds there
    maintenance         \* how the unlock_all_sessions run of this step ended:
                        \* "done", "error", or "none" when the step is no run

vars == <<now, Account, Session, ValidateTask, ExperimentWebsite, request, reply, sent,
          single_leases, worker, maintenance>>

\* session.account (the account that holds the session).
account(s) == CHOOSE a \in DOMAIN Account : Account[a].session = s
\* session.account.website
website(s) == Account[account(s)].website
\* session.account.website.site
site_of(s) == Website[website(s)]

\* The three tables as one value, threaded through the handlers.
DB == [Session |-> Session, ValidateTask |-> ValidateTask,
       ExperimentWebsite |-> ExperimentWebsite]

\* ------------------------------------------------------------ messages
\* The decoded request; missing names a key the dict does not hold.
Request(type, experiment, site, session_id, k) ==
    [type |-> type, experiment |-> experiment, site |-> site,
     session_id |-> session_id, k |-> k, missing |-> None]
NoRequest == Request("", None, None, 0, 0)
NoReply == [success |-> FALSE, error |-> "", site |-> None, sessions |-> {}]
send_success(site, sessions) ==
    [success |-> TRUE, error |-> "", site |-> site, sessions |-> sessions]
send_error(error) ==
    [success |-> FALSE, error |-> error, site |-> None, sessions |-> {}]

NoSessions == "no sessions available"
NotFound == "Session does not exist or does not belong to the experiment!"
ExperimentRequired == "Experiment is required!"
\* "invalid request <e>": the reply of the loop's except clause.
InvalidRequest == "invalid request"
\* "illegal request type <type>": the reply of the loop's else branch.
IllegalRequestType(type) == "illegal request type " \o type

\* ------------------------------------------------------------ unlock
\* unlock_session that schedules no validation task.
unlock_session_without_task(d, s) ==
    [d EXCEPT !.Session[s] = [@ EXCEPT !.locked = FALSE,
                                       !.verified = FALSE,
                                       !.verify_type = "no",
                                       !.session_status = "expired",
                                       !.unlock_time = now,
                                       !.experiment = None]]

\* unlock_session that leaves verify_type as it was.
unlock_session_keeping_verify_type(d, s) ==
    [d EXCEPT !.Session[s] = [@ EXCEPT !.locked = FALSE,
                                       !.verified = FALSE,
                                       !.session_status = "expired",
                                       !.unlock_time = now,
                                       !.experiment = None],
              !.ValidateTask[s] = @ + 1]

\* unlock_session that leaves the experiment field as it was.
unlock_session_keeping_experiment(d, s) ==
    [d EXCEPT !.Session[s] = [@ EXCEPT !.locked = FALSE,
                                       !.verified = FALSE,
                                       !.verify_type = "no",
                                       !.session_status = "expired",
                                       !.unlock_time = now],
              !.ValidateTask[s] = @ + 1]

\* unlock_session that leaves the session verified and active.
unlock_session_keeping_verified(d, s) ==
    [d EXCEPT !.Session[s] = [@ EXCEPT !.locked = FALSE,
                                       !.unlock_time = now,
                                       !.experiment = None],
              !.ValidateTask[s] = @ + 1]

\* unlock_session that also deletes the session's ExperimentWebsite rows.
unlock_session_forgetting(d, s) ==
    [d EXCEPT !.Session[s] = [@ EXCEPT !.locked = FALSE,
                                       !.verified = FALSE,
                                       !.verify_type = "no",
                                       !.session_status = "expired",
                                       !.unlock_time = now,
                                       !.experiment = None],
              !.ValidateTask[s] = @ + 1,
              !.ExperimentWebsite =
                  [r \in {x \in DOMAIN @ : x.session # s} |-> @[r]]]

\* unlock_session: the unlock transition and its one new ValidateTask.
unlock_session(d, s) ==
    [d EXCEPT !.Session[s] = [@ EXCEPT !.locked = FALSE,
                                       !.verified = FALSE,
                                       !.verify_type = "no",
                                       !.session_status = "expired",
                                       !.unlock_time = now,
                                       !.experiment = None],
              !.ValidateTask[s] = @ + 1]

\* "for session in ...: unlock_session(session)" over a set of rows.
RECURSIVE UnlockEach(_, _)
UnlockEach(d, S) ==
    IF S = {} THEN d
    ELSE LET s == CHOOSE x \in S : TRUE
         IN  UnlockEach(unlock_session(d, s), S \ {s})

\* A TTL query without "locked == True": every row whose unlock_time has
\* passed.
old_sessions_ignoring_locked(d) ==
    {s \in SessionIds : /\ d.Session[s].unlock_time # NoTime
                        /\ d.Session[s].unlock_time <= now}

\* unlock_old_sessions: the rows the TTL sweep selects, and the sweep.
old_sessions(d) ==
    {s \in SessionIds : d.Session[s].locked /\ d.Session[s].unlock_time <= now}
unlock_old_sessions(d) == UnlockEach(d, old_sessions(d))

\* The eligibility filter without "locked == False".
Eligible_ignoring_locked(d) ==
    {s \in SessionIds : /\ d.Session[s].session_status = "active"
                        /\ d.Session[s].verified = TRUE}

\* The eligibility filter without "verified == True".
Eligible_ignoring_verified(d) ==
    {s \in SessionIds : /\ d.Session[s].session_status = "active"
                        /\ d.Session[s].locked = FALSE}

\* The eligibility filter of both lease handlers:
\* SessionStatus.active, not locked, verified.
Eligible(d) ==
    {s \in SessionIds : /\ d.Session[s].session_status = "active"
                        /\ d.Session[s].locked = FALSE
                        /\ d.Session[s].verified = TRUE}

\* expire_old_sessions: the limit chosen by verify_type (hours).
limit(verify_type) ==
    IF verify_type = "auto" THEN AUTO_VERIFY_TIMOUT ELSE MANUAL_VERIFY_TIMOUT
\* The rows on which expire_old_sessions raises.
InvalidVerifyType(d, sessions) ==
    {s \in sessions : d.Session[s].verify_type \notin {"auto", "manual"}}
\* (current_time - session.update_time) > limit
TooOld(d, s) == (now - d.Session[s].update_time) > limit(d.Session[s].verify_type)
\* usable_sessions that keeps the too old rows.
usable_sessions_keeping_old(d, sessions) == sessions

\* expire_old_sessions on rows it does not raise on: usable_sessions, and
\* the tables after the too old rows were unlocked.
usable_sessions(d, sessions) == {s \in sessions : ~TooOld(d, s)}
expire_old_sessions(d, sessions) ==
    UnlockEach(d, {s \in sessions : TooOld(d, s)})

\* ------------------------------------------------------------ lock
\* A lock that sets no unlock_time.
lock_session_without_ttl(d, s, experiment) ==
    [d EXCEPT !.Session[s] = [@ EXCEPT !.locked = TRUE,
                                       !.experiment = experiment]]

\* A lock that assigns the experiment and the unlock_time but leaves locked
\* as it was.
lock_session_without_flag(d, s, experiment) ==
    [d EXCEPT !.Session[s] = [@ EXCEPT !.unlock_time = now + TIMEOUT_EXP_SESSION,
                                       !.experiment = experiment]]

\* A lock that saves the session as a new row.
lock_session_creating(d, s, experiment) ==
    [d EXCEPT !.Session =
        [x \in SessionIds \cup {UnknownSessionId} |->
            IF x = s \/ x = UnknownSessionId
            THEN [d.Session[s] EXCEPT !.locked = TRUE,
                                      !.unlock_time = now + TIMEOUT_EXP_SESSION,
                                      !.experiment = experiment]
            ELSE d.Session[x]]]

\* "Lock session and assign experiment to it": the three assignments and
\* session.save() of both lease handlers.
lock_session(d, s, experiment) ==
    [d EXCEPT !.Session[s] = [@ EXCEPT !.locked = TRUE,
                                       !.unlock_time = now + TIMEOUT_EXP_SESSION,
                                       !.experiment = experiment]]

\* db.ExperimentWebsite.create(website=..., experiment=..., session=...)
create_ExperimentWebsite(d, s, experiment) ==
    [d EXCEPT !.ExperimentWebsite =
        @ (+) SetToBag({[experiment |-> experiment, website |-> website(s), session |-> s]})]

\* A history query that finds no row.
websites_used_none(d, experiment) == {}

\* Websites already given to the experiment (websites_used / sites_used).
websites_used(d, experiment) ==
    {r.website : r \in {x \in BagToSet(d.ExperimentWebsite) : x.experiment = experiment}}

\* What one request does: the tables it leaves, the reply it sends, and the
\* sessions a successful get_session reply delivers.
Outcome(d, r, granted) ==
    [db |-> d, sent |-> <<r>>, granted |-> granted, raised |-> FALSE]
\* The request raised an exception before any reply was sent; d holds what
\* was saved before.
Raised(d) == [db |-> d, sent |-> <<>>, granted |-> {}, raised |-> TRUE]

\* ------------------------------------------------------------ single lease
\* A site filter that lets every session through.
sessions_of_any_site(usable, site) == usable

\* "for session in sessions: if session.account.website.site == site": the
\* sessions of the requested site.
sessions_of_site(usable, site) == {s \in usable : site_of(s) = site}

\* handle_get_session(experiment, site) on the tables d: freshness sweep,
\* TTL sweep, the site or history filter, lock of the first session, reply.
\* The order of the rows of a SELECT without ORDER BY is not fixed: the
\* first row is any row, and the rows expire_old_sessions has handled
\* before it raises are any set of rows it does not raise on.
handle_get_session(d, experiment, site) ==
    LET all == Eligible(d)
    IN  IF InvalidVerifyType(d, all) # {}
        THEN {Raised(expire_old_sessions(d, before)) :
                before \in SUBSET (all \ InvalidVerifyType(d, all))}
        ELSE LET d1 == expire_old_sessions(d, all)
                 usable == usable_sessions(d, all)
                 d2 == unlock_old_sessions(d1)
                 sessions == IF site # None
                             THEN sessions_of_site(usable, site)
                             ELSE {s \in usable :
                                     website(s) \notin websites_used(d2, experiment)}
                 locked(session) ==
                     LET d3 == lock_session(d2, session, experiment)
                     IN  IF site = None
                         THEN create_ExperimentWebsite(d3, session, experiment)
                         ELSE d3
             IN  IF sessions # {}
                 THEN UNION {
                        \* open(f"{SESSION_FILE_PATH}{session.name}.json")
                        { Outcome(locked(session), send_success(None, {session}),
                                  IF site = None THEN {session} ELSE {}),
                          Raised(locked(session)) }
                        : session \in sessions}
                 ELSE {Outcome(d2, send_error(NoSessions), {})}

\* ------------------------------------------------------------ batch lease
\* The first query: websites with at least k eligible accounts.
available_websites(d, k) ==
    {w \in WebsiteIds :
        LET account_count == Cardinality({a \in DOMAIN Account :
                                /\ Account[a].website = w
                                /\ Account[a].session \in Eligible(d)})
        IN  account_count >= 1 /\ account_count >= k}

\* The second query folded into sessions_per_site: website id -> sessions.
sessions_per_site(d, k) ==
    [w \in available_websites(d, k) |->
        {Account[a].session : a \in {x \in DOMAIN Account :
                                /\ Account[x].website = w
                                /\ Account[x].session \in Eligible(d)}}]

\* list(set(site_sessions) & set(sessions))[:k]: any k of the remaining
\* sessions, all of them when fewer than k remain.
FirstK(remaining, k) ==
    {g \in SUBSET remaining :
        Cardinality(g) = IF Cardinality(remaining) < k
                         THEN Cardinality(remaining) ELSE k}

Max(S) == CHOOSE x \in S : \A y \in S : y <= x
Min(S) == CHOOSE x \in S : \A y \in S : x <= y

\* The lock loop of handle_get_sessions over the sessions it reaches.
lock_sessions(d, locked, experiment, site) ==
    LET d3 == [d EXCEPT !.Session =
                 [s \in SessionIds |->
                    IF s \in locked THEN lock_session(d, s, experiment).Session[s]
                    ELSE d.Session[s]]]
    IN  IF site = None
        THEN [d3 EXCEPT !.ExperimentWebsite =
                @ (+) [r \in {[experiment |-> experiment, website |-> website(s),
                               session |-> s] : s \in locked} |-> 1]]
        ELSE d3

\* handle_get_sessions(experiment, site, k) on the tables d.  The loop "check
\* if some sites need to be removed again" deletes a site with fewer than k
\* remaining sessions and then assigns it again, and it rebinds the name
\* site to the last key of sessions_per_site (ordered by website id).
handle_get_sessions(d, experiment, site, k) ==
    LET per_site == sessions_per_site(d, k)
        all == UNION {per_site[w] : w \in DOMAIN per_site}
    IN  IF InvalidVerifyType(d, all) # {}
        THEN {Raised(expire_old_sessions(d, before)) :
                before \in SUBSET (all \ InvalidVerifyType(d, all))}
        ELSE LET d1 == expire_old_sessions(d, all)
                 usable == usable_sessions(d, all)
                 d2 == unlock_old_sessions(d1)
                 \* site after the loop
                 site1 == IF DOMAIN per_site # {}
                          THEN Website[Max(DOMAIN per_site)] ELSE site
                 kept == IF site1 # None
                         THEN {w \in DOMAIN per_site : Website[w] = site1}
                         ELSE {w \in DOMAIN per_site :
                                 w \notin websites_used(d2, experiment)}
             IN  IF kept # {}
                 THEN LET w == Min(kept)
                          \* site, site_sessions = list(sessions_per_site.items())[0]
                          site2 == Website[w]
                      IN  UNION {
                            \* every session-data file is read
                            {Outcome(lock_sessions(d2, site_sessions, experiment, site2),
                                     send_success(site2, site_sessions), {})}
                            \cup
                            \* a session-data file is missing: the sessions up
                            \* to that one are locked
                            {Raised(lock_sessions(d2, locked, experiment, site2)) :
                               locked \in (SUBSET site_sessions) \ {{}}}
                            : site_sessions \in FirstK(per_site[w] \cap usable, k)}
                 ELSE {Outcome(d2, send_error(NoSessions), {})}

\* ------------------------------------------------------------ unlock
\* handle_unlock_session that looks the session up by id alone.
handle_unlock_session_any_owner(d, experiment, session_id) ==
    IF experiment \notin Experiments
    THEN Outcome(d, send_error(ExperimentRequired), {})
    ELSE IF session_id \in SessionIds
         THEN Outcome(unlock_session(d, session_id), send_success(None, {}), {})
         ELSE Outcome(d, send_error(NotFound), {})

\* handle_unlock_session(experiment, session_id) on the tables d.
handle_unlock_session(d, experiment, session_id) ==
    IF experiment \notin Experiments
    THEN Outcome(d, send_error(ExperimentRequired), {})
    ELSE IF /\ session_id \in SessionIds
            /\ d.Session[session_id].experiment = experiment
         THEN Outcome(unlock_session(d, session_id), send_success(None, {}), {})
         ELSE Outcome(d, send_error(NotFound), {})

\* ------------------------------------------------------------ main loop
\* A loop whose except clause sends nothing.
except_clause_silent(o) == << >>

\* "except Exception as e: send_error(f"invalid request {e}")": what the
\* except clause sends for one request.
except_clause(o) ==
    IF o.raised THEN <<send_error(InvalidRequest)>> ELSE << >>

\* The tables are as the request left them, the replies are on the socket.
\* History: a lease ends when its session is unlocked.
Apply(o) ==
    /\ Session' = o.db.Session
    /\ ValidateTask' = o.db.ValidateTask
    /\ ExperimentWebsite' = o.db.ExperimentWebsite
    /\ sent' = o.sent \o except_clause(o)
    /\ reply' = IF sent' = << >> THEN NoReply ELSE sent'[Len(sent')]
    /\ single_leases' = {s \in single_leases : o.db.Session[s].locked} \cup o.granted
    /\ maintenance' = "none"
    /\ UNCHANGED <<now, Account, worker>>

\* One iteration of "while True": recv, dispatch on request["type"], reply.
GetSession ==
    \E experiment \in ExperimentValues :
       /\ request' = Request("get_session", experiment, None, 0, 0)
       /\ \E o \in handle_get_session(DB, experiment, None) : Apply(o)

GetSpecificSession ==
    \E experiment \in ExperimentValues, site \in Sites :
       /\ request' = Request("get_specific_session", experiment, site, 0, 0)
       /\ \E o \in handle_get_session(DB, experiment, site) : Apply(o)

GetSessions ==
    \E experiment \in ExperimentValues, k \in 1..MaxK :
       /\ request' = Request("get_sessions", experiment, None, 0, k)
       /\ \E o \in handle_get_sessions(DB, experiment, None, k) : Apply(o)

GetSpecificSessions ==
    \E experiment \in ExperimentValues, site \in Sites, k \in 1..MaxK :
       /\ request' = Request("get_specific_sessions", experiment, site, 0, k)
       /\ \E o \in handle_get_sessions(DB, experiment, site, k) : Apply(o)

UnlockSession ==
    \E experiment \in ExperimentValues, session_id \in SessionIds \cup {UnknownSessionId} :
       /\ request' = Request("unlock_session", experiment, None, session_id, 0)
       /\ \E o \in {handle_unlock_session(DB, experiment, session_id)} : Apply(o)

\* Requests the loop does not serve: a type none of the branches names, a
\* dict without a key the branch reads (KeyError), a quorum k below one.
IllegalTypes == {"ping"}
MissingKeys == { <<"", "type">>, <<"get_session", "experiment">>,
                 <<"get_specific_session", "site">>,
                 <<"unlock_session", "session_id">> }
NonPositiveK == {0}

\* else: send_error(f"illegal request type {request['type']}")
IllegalType ==
    \E type \in IllegalTypes :
       /\ request' = Request(type, None, None, 0, 0)
       /\ \E o \in {Outcome(DB, send_error(IllegalRequestType(type)), {})} : Apply(o)

\* request["type"], request["experiment"], request["site"] or
\* request["session_id"] raises KeyError before a handler is called.
MalformedRequest ==
    \E m \in MissingKeys :
       /\ request' = [Request(m[1], None, None, 0, 0) EXCEPT !.missing = m[2]]
       /\ \E o \in {Raised(DB)} : Apply(o)

\* A batch request whose k is not positive is handed to handle_get_sessions
\* as it is.
GetSessionsNonPositiveK ==
    \E experiment \in Experiments, site \in Sites \cup {None}, k \in NonPositiveK :
       /\ request' = Request(IF site = None THEN "get_sessions"
                                             ELSE "get_specific_sessions",
                             experiment, site, 0, k)
       /\ \E o \in handle_get_sessions(DB, experiment, site, k) : Apply(o)

\* ------------------------------------------------------------ environment
\* What the external verifier may write when it has examined a session.
Verdicts ==
    { [verified |-> TRUE,  session_status |-> "active",  verify_type |-> "auto"],
      [verified |-> TRUE,  session_status |-> "active",  verify_type |-> "no"],
      [verified |-> FALSE, session_status |-> "active",  verify_type |-> "auto"],
      [verified |-> TRUE,  session_status |-> "expired", verify_type |-> "auto"] }

\* The external verifier examines a session that is neither leased nor
\* eligible and writes its verdict, stamping update_time; it examines a
\* session once per clock value.
Verify ==
    \E s \in SessionIds, v \in Verdicts :
       /\ ~Session[s].locked
       /\ s \notin Eligible(DB)
       /\ Session[s].update_time < now
       /\ Session' = [Session EXCEPT ![s] = [@ EXCEPT !.verified = v.verified,
                                                      !.verify_type = v.verify_type,
                                                      !.session_status = v.session_status,
                                                      !.update_time = now]]
       /\ reply' = NoReply
       /\ sent' = << >>
       /\ request' = NoRequest
       /\ maintenance' = "none"
       /\ UNCHANGED <<now, Account, ValidateTask, ExperimentWebsite, single_leases, worker>>

\* Time passes between two requests.
Tick ==
    /\ now + TickHours <= MaxTime
    /\ now' = now + TickHours
    /\ reply' = NoReply
    /\ sent' = << >>
    /\ request' = NoRequest
    /\ maintenance' = "none"
    /\ UNCHANGED <<Account, Session, ValidateTask, ExperimentWebsite, single_leases, worker>>

Init ==
    /\ now = 0
    /\ Account \in Pools
    /\ Session = [s \in SessionIds |->
                    [locked |-> FALSE, verified |-> TRUE,
                     verify_type |-> IF s = 1 THEN "auto" ELSE "manual",
                     session_status |-> "active", unlock_time |-> NoTime,
                     update_time |-> 0, experiment |-> None]]
    /\ ValidateTask = [s \in SessionIds |-> 0]
    /\ ExperimentWebsite = EmptyBag
    /\ reply = NoReply
    /\ sent = << >>
    /\ request = NoRequest
    /\ single_leases = {}
    /\ worker = [w \in Workers |-> Idle]
    /\ maintenance = "none"

Next ==
    \/ GetSession
    \/ GetSpecificSession
    \/ GetSessions
    \/ GetSpecificSessions
    \/ UnlockSession
    \/ Verify
    \/ Tick

Spec == Init /\ [][Next]_vars

\* The loop with every request it can receive, started on a pool the
\* verifier has been over: each session is as Init has it or carries one of
\* the verifier's verdicts.  The verifier does not run again.
InitLoop ==
    /\ now = 0
    /\ Account \in Pools
    /\ \E examined \in SUBSET SessionIds, v \in [SessionIds -> Verdicts] :
          Session = [s \in SessionIds |->
                        [locked |-> FALSE,
                         verified |-> IF s \in examined THEN v[s].verified ELSE TRUE,
                         verify_type |-> IF s \in examined THEN v[s].verify_type
                                         ELSE IF s = 1 THEN "auto" ELSE "manual",
                         session_status |-> IF s \in examined THEN v[s].session_status
                                            ELSE "active",
                         unlock_time |-> NoTime,
                         update_time |-> 0, experiment |-> None]]
    /\ ValidateTask = [s \in SessionIds |-> 0]
    /\ ExperimentWebsite = EmptyBag
    /\ reply = NoReply
    /\ sent = << >>
    /\ request = NoRequest
    /\ single_leases = {}
    /\ worker = [w \in Workers |-> Idle]
    /\ maintenance = "none"

NextLoop ==
    \/ GetSession
    \/ GetSpecificSession
    \/ GetSessions
    \/ GetSpecificSessions
    \/ UnlockSession
    \/ IllegalType
    \/ MalformedRequest
    \/ GetSessionsNonPositiveK
    \/ Tick

SpecLoop == InitLoop /\ [][NextLoop]_vars

\* ------------------------------------------------------------ two workers
\* Two processes run the loop against the same database.  api.py opens no
\* transaction and takes no row lock, so every query and every save() is a
\* store operation of its own; here handle_get_session is cut once, between
\* "session = sessions[0]" and the save() that locks it.

\* Lines 147-193 of handle_get_session(experiment, None): the query, the two
\* sweeps, the history filter and the pick.  session is 0 when the handler
\* ends here, by the exception of the freshness sweep or with the
\* no-session error.
select_session(d, experiment) ==
    LET all == Eligible(d)
    IN  IF InvalidVerifyType(d, all) # {}
        THEN {[db |-> expire_old_sessions(d, before), session |-> 0] :
                before \in SUBSET (all \ InvalidVerifyType(d, all))}
        ELSE LET d1 == expire_old_sessions(d, all)
                 usable == usable_sessions(d, all)
                 d2 == unlock_old_sessions(d1)
                 sessions == {s \in usable :
                                website(s) \notin websites_used(d2, experiment)}
             IN  IF sessions # {}
                 THEN {[db |-> d2, session |-> session] : session \in sessions}
                 ELSE {[db |-> d2, session |-> 0]}

\* A worker receives a get_session request and runs the handler up to the
\* pick; it keeps the picked row as the query returned it.
SelectSession ==
    \E w \in Workers, experiment \in Experiments :
       /\ worker[w].pc = "recv"
       /\ \E r \in select_session(DB, experiment) :
             /\ Session' = r.db.Session
             /\ ValidateTask' = r.db.ValidateTask
             /\ ExperimentWebsite' = r.db.ExperimentWebsite
             /\ worker' = [worker EXCEPT ![w] =
                   IF r.session = 0
                   THEN [Idle EXCEPT !.experiment = experiment]
                   ELSE [pc |-> "lock", experiment |-> experiment,
                         session |-> r.session, row |-> Session[r.session],
                         granted |-> FALSE]]
       /\ UNCHANGED <<now, Account, request, reply, sent, single_leases, maintenance>>

\* Lines 195-238: the worker sets locked, unlock_time and experiment on the
\* row it holds and saves it (save() writes every field of the instance),
\* records the website, reads the session file and replies; the read may
\* raise.
LockSession ==
    \E w \in Workers, ok \in BOOLEAN :
       /\ worker[w].pc = "lock"
       /\ LET session == worker[w].session
              experiment == worker[w].experiment
              held == [DB EXCEPT !.Session[session] = worker[w].row]
              d3 == create_ExperimentWebsite(lock_session(held, session, experiment),
                                             session, experiment)
          IN  /\ Session' = d3.Session
              /\ ValidateTask' = d3.ValidateTask
              /\ ExperimentWebsite' = d3.ExperimentWebsite
              /\ worker' = [worker EXCEPT ![w] =
                    [Idle EXCEPT !.experiment = experiment, !.session = session,
                                 !.granted = ok]]
       /\ UNCHANGED <<now, Account, request, reply, sent, single_leases, maintenance>>

NextWorkers ==
    \/ SelectSession
    \/ LockSession
    \/ Tick

SpecWorkers == Init /\ [][NextWorkers]_vars

\* ------------------------------------------------------------ unlock all
\* unlock_all_sessions.py, run by an operator next to the serving loop.

\* A transaction that keeps what was saved before the exception.
atomic_keeping_saved(before, at_exception) == at_exception

\* "with db.db.atomic():" left by an exception: the transaction is rolled
\* back and the tables are as they were before it.
atomic(before, at_exception) == before

\* db.Session.select().where(db.Session.experiment != None)
sessions_with_experiment(d) ==
    {s \in SessionIds : d.Session[s].experiment # None}

\* main(): unlock_session on every selected session inside one transaction;
\* an exception anywhere in it (done are the sessions unlocked before it) is
\* printed and the run ends.
main(d, ok, done) ==
    IF ok
    THEN UnlockEach(d, sessions_with_experiment(d))
    ELSE atomic(d, UnlockEach(d, done))

UnlockAll ==
    \E ok \in BOOLEAN, done \in SUBSET sessions_with_experiment(DB) :
       /\ ok => done = sessions_with_experiment(DB)
       /\ LET d == main(DB, ok, done)
          IN  /\ Session' = d.Session
              /\ ValidateTask' = d.ValidateTask
              /\ ExperimentWebsite' = d.ExperimentWebsite
              /\ single_leases' = {s \in single_leases : d.Session[s].locked}
       /\ maintenance' = IF ok THEN "done" ELSE "error"
       /\ reply' = NoReply
       /\ sent' = << >>
       /\ request' = NoRequest
       /\ UNCHANGED <<now, Account, worker>>

\* The serving loop with single leases, and the operator's runs.
NextMaintenance ==
    \/ GetSession
    \/ UnlockSession
    \/ UnlockAll
    \/ Verify
    \/ Tick

SpecMaintenance == Init /\ [][NextMaintenance]_vars

\* The loop under a steady stream of get_session requests: tenants lease
\* and unlock, the verifier runs, time passes, and get_session requests keep
\* arriving.
NextLive ==
    \/ GetSession
    \/ UnlockSession
    \/ Verify
    \/ Tick

SpecLive ==
    Init /\ [][NextLive]_vars /\ WF_vars(GetSession) /\ WF_vars(Tick)

\* ================================================================ claims
LeaseTypes == {"get_session", "get_specific_session", "get_sessions",
               "get_specific_sessions"}
BatchTypes == {"get_sessions", "get_specific_sessions"}

\* The row of a session that has been unlocked and not touched since.
UnlockedForm(r) ==
    /\ r.locked = FALSE
    /\ r.experiment = None
    /\ r.verified = FALSE
    /\ r.verify_type = "no"
    /\ r.session_status = "expired"

\* A request of this step has unlocked session s: it was leased and is no
\* longer, or it was verified and is no longer.
UnlockEvent(s) ==
    /\ request' # NoRequest
    /\ \/ Session[s].locked /\ ~Session'[s].locked
       \/ Session[s].verified /\ ~Session'[s].verified

\* C1: in every reachable state every locked session has a non-null
\* experiment and an unlock_time, whatever the payloads of the requests were
\* (a null experiment included).
C1_LockedHasExperiment ==
    \A s \in SessionIds :
        Session[s].locked =>
            Session[s].experiment # None /\ Session[s].unlock_time # NoTime

\* C2: a session that is locked before a request and still locked after it
\* keeps its experiment and its unlock_time and is not in the reply: a lease
\* is given again only after an unlock.
C2_NoDoubleLease ==
    [][\A s \in SessionIds :
          (Session[s].locked /\ Session'[s].locked) =>
              /\ Session'[s].experiment = Session[s].experiment
              /\ Session'[s].unlock_time = Session[s].unlock_time
              /\ s \notin reply'.sessions]_vars

\* C2 witness: a lease request was served for one tenant while the other
\* session was held by another tenant.
C2_Witness ==
    /\ request.type \in LeaseTypes
    /\ reply.success
    /\ \E s \in reply.sessions, other \in SessionIds \ reply.sessions :
          /\ Session[s].locked /\ Session[other].locked
          /\ Session[s].experiment = request.experiment
          /\ Session[other].experiment \in Experiments \ {request.experiment}

\* C3: a session a request locks or returns was active, unlocked and
\* verified when the request arrived.
C3_OnlyEligibleLeased ==
    [][\A s \in SessionIds :
          ((~Session[s].locked /\ Session'[s].locked) \/ s \in reply'.sessions) =>
              /\ Session[s].session_status = "active"
              /\ Session[s].locked = FALSE
              /\ Session[s].verified = TRUE]_vars

\* C3 witness: a lease was served while the other session was unlocked and
\* either unverified or not active.
C3_Witness ==
    /\ request.type \in LeaseTypes
    /\ reply.success
    /\ \E s \in reply.sessions, other \in SessionIds \ reply.sessions :
          /\ Session[s].locked
          /\ ~Session[other].locked
          /\ ~Session[other].verified \/ Session[other].session_status # "active"

\* C4: no tenant holds two leases delivered by successful get_session
\* replies for sessions of the same website.
C4_OneSingleLeasePerWebsite ==
    \A s1, s2 \in single_leases :
        (s1 # s2 /\ Session[s1].experiment = Session[s2].experiment) =>
            website(s1) # website(s2)

\* C4 witness: get_session was refused to a tenant that holds a get_session
\* lease of a website while another session of that website is eligible.
C4_Witness ==
    /\ request.type = "get_session"
    /\ reply = send_error(NoSessions)
    /\ \E s \in single_leases, other \in SessionIds \ single_leases :
          /\ Session[s].experiment = request.experiment
          /\ website(other) = website(s)
          /\ Session[other].session_status = "active"
          /\ ~Session[other].locked
          /\ Session[other].verified

\* C5: a step adds one ValidateTask for a session when a request of the step
\* unlocks the session, and none otherwise.
C5_OneTaskPerUnlock ==
    [][\A s \in SessionIds :
          ValidateTask'[s] = ValidateTask[s] + (IF UnlockEvent(s) THEN 1 ELSE 0)]_vars

\* C5 witness: a session was unlocked, verified again, leased again and
\* unlocked again.
C5_Witness ==
    /\ request # NoRequest
    /\ \E s \in SessionIds : ValidateTask[s] = 2 /\ UnlockedForm(Session[s])

\* C6: right after an unlock the session is unlocked, has no experiment, is
\* unverified, has verify_type "no" and status expired.
C6_UnlockTransition ==
    [][\A s \in SessionIds :
          (UnlockEvent(s) \/ ValidateTask'[s] > ValidateTask[s]) =>
              UnlockedForm(Session'[s])]_vars

\* C6 witness: a lease request has reclaimed a session whose lease ran out.
C6_Witness ==
    /\ request.type \in LeaseTypes
    /\ \E s \in SessionIds :
          /\ ValidateTask[s] >= 1
          /\ UnlockedForm(Session[s])
          /\ Session[s].unlock_time = now
          /\ now >= TIMEOUT_EXP_SESSION

\* C7: unlock_session by a tenant for a session id that has no row, or whose
\* experiment field is not that tenant, is answered with the not-found error
\* and changes no table.
C7_UnlockNotOwned ==
    [][(/\ request'.type = "unlock_session"
        /\ request'.experiment \in Experiments
        /\ \/ request'.session_id \notin SessionIds
           \/ Session[request'.session_id].experiment # request'.experiment) =>
           /\ reply' = send_error(NotFound)
           /\ UNCHANGED <<Session, ValidateTask, ExperimentWebsite>>]_vars

\* C7 witness: a tenant asked to unlock a session another tenant holds.
C7_Witness ==
    /\ request.type = "unlock_session"
    /\ reply = send_error(NotFound)
    /\ request.session_id \in SessionIds
    /\ Session[request.session_id].locked
    /\ Session[request.session_id].experiment \in Experiments \ {request.experiment}

\* C8: unlock_session by the tenant in the session's experiment field
\* succeeds, and when the same request comes again next it gets the
\* not-found error and changes no table.
C8_SecondUnlockNotFound ==
    [][/\ (/\ request'.type = "unlock_session"
           /\ request'.experiment \in Experiments
           /\ request'.session_id \in SessionIds
           /\ Session[request'.session_id].experiment = request'.experiment) =>
              reply' = send_success(None, {})
       /\ (/\ request.type = "unlock_session"
           /\ reply.success
           /\ request' = request) =>
              /\ reply' = send_error(NotFound)
              /\ UNCHANGED <<Session, ValidateTask, ExperimentWebsite>>]_vars

\* C8 witness: unlock_session was answered not-found for a session that was
\* unlocked at this very time and has its one ValidateTask.
C8_Witness ==
    /\ request.type = "unlock_session"
    /\ request.experiment \in Experiments
    /\ reply = send_error(NotFound)
    /\ request.session_id \in SessionIds
    /\ UnlockedForm(Session[request.session_id])
    /\ Session[request.session_id].unlock_time = now
    /\ ValidateTask[request.session_id] = 1

\* C9: a successful batch reply holds exactly k sessions, all of the replied
\* website and of k distinct accounts.
C9_BatchExactlyK ==
    (request.type \in BatchTypes /\ request.experiment \in Experiments /\ reply.success) =>
        /\ Cardinality(reply.sessions) = request.k
        /\ \A s \in reply.sessions : site_of(s) = reply.site
        /\ Cardinality({account(s) : s \in reply.sessions}) = request.k

\* The eligible sessions of a site that the freshness sweep keeps.
FreshEligible(site) ==
    {s \in SessionIds : /\ site_of(s) = site
                        /\ Session[s].session_status = "active"
                        /\ ~Session[s].locked
                        /\ Session[s].verified
                        /\ ~TooOld(DB, s)}

\* C10: a batch lease with k = 2 for a site with n eligible fresh sessions
\* (of n accounts) returns both when n = 2, is refused with "no sessions
\* available" when n = 1 and returns two of them when n = 3; stated for the
\* requests that no exception has ended.
C10_BatchQuorumTwo ==
    [][(/\ request'.type = "get_specific_sessions"
        /\ request'.experiment \in Experiments
        /\ request'.k = 2
        /\ reply'.error # InvalidRequest) =>
           LET fresh == FreshEligible(request'.site)
               n == Cardinality(fresh)
           IN  /\ n = 2 => reply'.success /\ reply'.sessions = fresh
               /\ n = 1 => reply' = send_error(NoSessions)
               /\ n = 3 => /\ reply'.success
                           /\ Cardinality(reply'.sessions) = 2
                           /\ reply'.sessions \subseteq fresh
                           /\ \E s \in fresh : ~Session'[s].locked]_vars

\* A session this step's request has locked.
NewlyLocked(s) == ~Session[s].locked /\ Session'[s].locked

\* The request of this step ran to its end: no exception ended it.
Completed == reply'.error # InvalidRequest

\* C11: a site-pinned batch lease locks and returns sessions of the requested
\* site only and replies with the requested site; when the requested site
\* has fewer than k fresh eligible sessions the request is refused with "no
\* sessions available" and locks nothing, whatever other websites qualify.
C11_PinnedBatchSite ==
    [][(/\ request'.type = "get_specific_sessions"
        /\ request'.experiment \in Experiments
        /\ Completed) =>
           /\ reply'.success =>
                 /\ reply'.site = request'.site
                 /\ \A s \in SessionIds :
                       (NewlyLocked(s) \/ s \in reply'.sessions) =>
                           site_of(s) = request'.site
           /\ Cardinality(FreshEligible(request'.site)) < request'.k =>
                 /\ reply' = send_error(NoSessions)
                 /\ \A s \in SessionIds : ~NewlyLocked(s)]_vars

\* C12: the website of a successful get_sessions reply has no
\* ExperimentWebsite record of the requesting tenant when the request
\* arrives.
C12_BatchSkipsHistory ==
    [][(/\ request'.type = "get_sessions"
        /\ request'.experiment \in Experiments
        /\ reply'.success) =>
           \A w \in WebsiteIds :
               Website[w] = reply'.site =>
                   w \notin websites_used(DB, request'.experiment)]_vars

\* The ExperimentWebsite rows {tenant, website, session} of a set of sessions.
AllocationRecords(experiment, sessions) ==
    {[experiment |-> experiment, website |-> website(s), session |-> s] :
        s \in sessions}

\* C13: a successful get_sessions locks every session of its reply for the
\* tenant until now + TIMEOUT_EXP_SESSION and adds exactly one
\* ExperimentWebsite record per locked session; a successful
\* get_specific_sessions adds no record.
C13_BatchRecords ==
    [][(/\ request'.type \in BatchTypes
        /\ request'.experiment \in Experiments
        /\ reply'.success) =>
           /\ \A s \in reply'.sessions :
                 /\ Session'[s].locked
                 /\ Session'[s].experiment = request'.experiment
                 /\ Session'[s].unlock_time = now + TIMEOUT_EXP_SESSION
           /\ request'.type = "get_sessions" =>
                 ExperimentWebsite' = ExperimentWebsite (+)
                     SetToBag(AllocationRecords(request'.experiment, reply'.sessions))
           /\ request'.type = "get_specific_sessions" =>
                 ExperimentWebsite' = ExperimentWebsite]_vars

\* The leases that have run out when the request of this step arrives.
ExpiredLeases == {s \in SessionIds : Session[s].locked /\ Session[s].unlock_time <= now}

\* C14: a lease request unlocks every session that is locked with
\* unlock_time <= now when the request arrives, and leaves it unlocked.
C14_TTLReclaim ==
    [][request'.type \in LeaseTypes =>
          \A s \in ExpiredLeases :
              /\ UnlockedForm(Session'[s])
              /\ ValidateTask'[s] = ValidateTask[s] + 1]_vars

\* The candidate set of the request of this step: the rows of the handler's
\* first query.
Candidates ==
    IF request'.type \in BatchTypes
    THEN UNION {sessions_per_site(DB, request'.k)[w] :
                    w \in available_websites(DB, request'.k)}
    ELSE Eligible(DB)

\* Session s is as it was, or as it was and locked by this step's request.
KeptOrLeased(s) ==
    \/ Session'[s] = Session[s]
    \/ Session'[s] = lock_session(DB, s, request'.experiment).Session[s]

\* C15: a candidate of a lease request with verify_type "auto" or "manual"
\* whose age is above the limit of its verify_type is unlocked by the request
\* and is not handed out; one whose age is at most the limit is left as it
\* was, or is the session the request leases.
C15_FreshnessReclaim ==
    [][request'.type \in LeaseTypes =>
          \A s \in Candidates :
              Session[s].verify_type \in {"auto", "manual"} =>
                  /\ TooOld(DB, s) =>
                        /\ UnlockedForm(Session'[s])
                        /\ ValidateTask'[s] = ValidateTask[s] + 1
                        /\ s \notin reply'.sessions
                  /\ ~TooOld(DB, s) =>
                        /\ KeptOrLeased(s)
                        /\ ValidateTask'[s] = ValidateTask[s]]_vars

SingleTypes == {"get_session", "get_specific_session"}

\* The sessions a single lease request of this step can hand out: eligible,
\* not older than their limit, of the requested site or, with no site, of a
\* website the tenant has no ExperimentWebsite record for.
SingleRemaining ==
    LET fresh == {s \in Eligible(DB) : ~TooOld(DB, s)}
    IN  IF request'.site # None
        THEN {s \in fresh : site_of(s) = request'.site}
        ELSE {s \in fresh : website(s) \notin websites_used(DB, request'.experiment)}

\* C16: a single lease request that runs to its end with no session left to
\* hand out is answered "no sessions available", locks no session and adds
\* no ExperimentWebsite record; and a get_session that comes again right
\* after it succeeded, while every eligible session is of the website just
\* leased, is answered "no sessions available".
C16_NoSessionAvailable ==
    [][/\ (/\ request'.type \in SingleTypes
           /\ Completed
           /\ SingleRemaining = {}) =>
              /\ reply' = send_error(NoSessions)
              /\ \A s \in SessionIds : ~NewlyLocked(s)
              /\ ExperimentWebsite' = ExperimentWebsite
       /\ (/\ request.type = "get_session"
           /\ reply.success
           /\ request' = request
           /\ Completed
           /\ \A s \in Eligible(DB) :
                 \E leased \in reply.sessions : website(s) = website(leased)) =>
              reply' = send_error(NoSessions)]_vars

\* C16 witness: get_session was refused to a tenant that was given a session
\* of a website at this very time, while the other session of that website
\* is eligible and not too old.
C16_Witness ==
    /\ request.type = "get_session"
    /\ request.experiment \in Experiments
    /\ reply = send_error(NoSessions)
    /\ \E s \in SessionIds, other \in SessionIds :
          /\ Session[s].locked
          /\ Session[s].experiment = request.experiment
          /\ Session[s].unlock_time = now + TIMEOUT_EXP_SESSION
          /\ [experiment |-> request.experiment, website |-> website(s), session |-> s]
                \in BagToSet(ExperimentWebsite)
          /\ other # s
          /\ website(other) = website(s)
          /\ other \in Eligible(DB)
          /\ ~TooOld(DB, other)

\* C17: a lease request that is answered with an error has locked no
\* session and has added no ExperimentWebsite record.
C17_ErrorLeavesNoLease ==
    [][(/\ request'.type \in LeaseTypes
        /\ request'.experiment \in Experiments
        /\ ~reply'.success) =>
          /\ \A s \in SessionIds : ~NewlyLocked(s)
          /\ ExperimentWebsite' = ExperimentWebsite]_vars

\* C18: every request the loop has received was answered with exactly one
\* reply, whether its handler replied itself or raised an exception.
C18_OneReplyPerRequest ==
    request # NoRequest => Len(sent) = 1 /\ reply = sent[1]

\* C18 witness: a lease request that raised after it had locked a session
\* was answered with the one reply of the except clause.
C18_Witness ==
    /\ request.type \in LeaseTypes
    /\ request.experiment \in Experiments
    /\ sent = <<send_error(InvalidRequest)>>
    /\ \E s \in SessionIds :
          /\ Session[s].locked
          /\ Session[s].experiment = request.experiment
          /\ Session[s].unlock_time = now + TIMEOUT_EXP_SESSION

\* The request of this step is not well formed: its type is unknown, a key
\* is missing, its experiment is null or its k is not positive.
NotWellFormed ==
    \/ request'.type \in IllegalTypes
    \/ request'.missing # None
    \/ request'.type \in LeaseTypes \cup {"unlock_session"} /\ request'.experiment = None
    \/ request'.type \in BatchTypes /\ request'.k < 1

\* C19: a request that is not well formed gets an error reply and changes
\* no session, ExperimentWebsite record or ValidateTask; the error of an
\* unknown type names the type.
C19_MalformedChangesNothing ==
    [][(request' # NoRequest /\ NotWellFormed) =>
          /\ ~reply'.success
          /\ UNCHANGED <<Session, ValidateTask, ExperimentWebsite>>
          /\ request'.type \in IllegalTypes =>
                reply'.error = IllegalRequestType(request'.type)]_vars

\* C20: a candidate whose verify_type is neither "auto" nor "manual" does
\* not end the lease request: the request still reclaims every lease that
\* has run out, still unlocks the other candidates that are too old, and
\* is answered by the except clause only when something failed after a
\* session was locked.
C20_InvalidVerifyTypeIsLocal ==
    [][(/\ request'.type \in LeaseTypes
        /\ request'.experiment \in Experiments
        /\ InvalidVerifyType(DB, Candidates) # {}) =>
           /\ \A s \in ExpiredLeases : UnlockedForm(Session'[s])
           /\ \A s \in Candidates \ InvalidVerifyType(DB, Candidates) :
                 TooOld(DB, s) => UnlockedForm(Session'[s])
           /\ reply'.error = InvalidRequest =>
                 \E s \in SessionIds : NewlyLocked(s)]_vars

\* C21: get_specific_session hands out and locks sessions of the requested
\* site only, adds no ExperimentWebsite record, and when it runs to its end
\* it succeeds whenever the site has an eligible session that is not too
\* old, whatever the tenant's history holds.
C21_PinnedSingle ==
    [][request'.type = "get_specific_session" =>
          /\ \A s \in SessionIds :
                (NewlyLocked(s) \/ s \in reply'.sessions) => site_of(s) = request'.site
          /\ ExperimentWebsite' = ExperimentWebsite
          /\ (Completed /\ FreshEligible(request'.site) # {}) => reply'.success]_vars

\* C21 witness: get_specific_session gave a tenant a session of a website
\* the tenant has an ExperimentWebsite record for.
C21_Witness ==
    /\ request.type = "get_specific_session"
    /\ request.experiment \in Experiments
    /\ reply.success
    /\ \E s \in reply.sessions :
          /\ site_of(s) = request.site
          /\ Session[s].locked
          /\ website(s) \in websites_used(DB, request.experiment)

\* C22: a successful single lease locks exactly one session, the one in its
\* reply, which was among the sessions the request could hand out; the
\* session gets locked = true, the tenant and unlock_time = now +
\* TIMEOUT_EXP_SESSION and keeps its other fields; no other session becomes
\* locked; get_session adds the one record {tenant, website, session} and
\* get_specific_session adds none.
C22_SingleLease ==
    [][(request'.type \in SingleTypes /\ reply'.success) =>
          \E s \in SingleRemaining :
              /\ reply'.sessions = {s}
              /\ Session'[s] = [Session[s] EXCEPT
                                   !.locked = TRUE,
                                   !.experiment = request'.experiment,
                                   !.unlock_time = now + TIMEOUT_EXP_SESSION]
              /\ \A other \in SessionIds \ {s} : ~NewlyLocked(other)
              /\ ExperimentWebsite' =
                    IF request'.type = "get_session"
                    THEN ExperimentWebsite (+)
                            SetToBag(AllocationRecords(request'.experiment, {s}))
                    ELSE ExperimentWebsite]_vars

\* C22 witness: get_session has leased one session to a tenant, recorded it
\* once and left the other session unlocked.
C22_Witness ==
    /\ request.type = "get_session"
    /\ request.experiment \in Experiments
    /\ reply.success
    /\ \E s \in reply.sessions, other \in SessionIds \ reply.sessions :
          /\ Session[s].locked
          /\ Session[s].unlock_time = now + TIMEOUT_EXP_SESSION
          /\ ~Session[other].locked
          /\ CopiesIn([experiment |-> request.experiment, website |-> website(s),
                       session |-> s], ExperimentWebsite) = 1

\* C23: a lease request reclaims the leases that have run out first and in
\* every case: when the freshness sweep fails on a candidate of the request,
\* every session that was locked with unlock_time <= now is unlocked all the
\* same.
C23_TTLSweepFirst ==
    [][(/\ request'.type \in LeaseTypes
        /\ InvalidVerifyType(DB, Candidates) # {}) =>
           \A s \in ExpiredLeases : ~Session'[s].locked]_vars

\* C24: after an unlock_session request, answered with success or with an
\* error, no session is locked with unlock_time <= now.
C24_ReconcileOnUnlock ==
    request.type = "unlock_session" =>
        \A s \in SessionIds : ~(Session[s].locked /\ Session[s].unlock_time <= now)

\* C25: a lease request of either kind whose freshness sweep raises on no
\* session unlocks every session that passes the eligibility filter and is
\* older than the limit of its verify_type.
C25_FreshnessUniform ==
    [][(/\ request'.type \in LeaseTypes
        /\ request'.experiment \in Experiments
        /\ InvalidVerifyType(DB, Eligible(DB)) = {}) =>
           \A s \in Eligible(DB) :
               TooOld(DB, s) => UnlockedForm(Session'[s])]_vars

\* A row that passes the eligibility filter.
EligibleRow(r) == r.session_status = "active" /\ ~r.locked /\ r.verified

C30_HistoryOnlyGrows ==
    [][/\ ExperimentWebsite \sqsubseteq ExperimentWebsite'
       /\ (request'.type = "get_session" /\ reply'.success) =>
             \A s \in reply'.sessions :
                 \A r \in BagToSet(ExperimentWebsite) :
                     r.experiment = request'.experiment => r.website # website(s)]_vars

\* C30 witness: get_session was refused to a tenant while a session it had
\* been given before, unlocked and verified again since, is eligible and not
\* too old.
C30_Witness ==
    /\ request.type = "get_session"
    /\ request.experiment \in Experiments
    /\ reply = send_error(NoSessions)
    /\ \E s \in SessionIds :
          /\ [experiment |-> request.experiment, website |-> website(s), session |-> s]
                \in BagToSet(ExperimentWebsite)
          /\ ValidateTask[s] >= 1
          /\ EligibleRow(Session[s])
          /\ ~TooOld(DB, s)

\* The columns of a Session row.
SessionFields == {"locked", "verified", "verify_type", "session_status",
                  "unlock_time", "update_time", "experiment"}

\* C29: the Session table holds the same session ids in every state, each
\* with the same columns: requests change fields of rows and neither add
\* nor remove a row.
C29_NoSessionCreatedOrDeleted ==
    /\ DOMAIN Session = SessionIds
    /\ \A s \in SessionIds : DOMAIN Session[s] = SessionFields

\* C29 witness: requests have leased one session and have leased and
\* unlocked the other.
C29_Witness ==
    /\ request # NoRequest
    /\ \E s \in SessionIds, other \in SessionIds :
          /\ Session[s].locked
          /\ Session[s].experiment \in Experiments
          /\ UnlockedForm(Session[other])
          /\ ValidateTask[other] >= 1

\* C27: a session that is locked with unlock_time <= now is unlocked at some
\* later time when get_session requests keep arriving, whether or not its
\* tenant sends unlock_session.
C27_SelfHealing ==
    \A s \in SessionIds :
        (Session[s].locked /\ Session[s].unlock_time <= now) ~> ~Session[s].locked

\* C28: with two workers on one database, a lock never lands on a session
\* that is locked for another tenant: a session that is locked before a
\* step of a worker and locked after it keeps its experiment.
C28_AtomicAllocation ==
    [][\A s \in SessionIds :
          (Session[s].locked /\ Session'[s].locked) =>
              Session'[s].experiment = Session[s].experiment]_vars

\* A session with a tenant in its experiment field is locked.
ExperimentOnlyWhileLocked ==
    \A s \in SessionIds : Session[s].experiment # None => Session[s].locked

\* C31: in every reachable state a session whose experiment field is not
\* null is locked, and an unlock_session request of a string-named tenant
\* that succeeds releases a session that was locked and held by that tenant.
C31_UnlockReleasesHeldLock ==
    /\ ExperimentOnlyWhileLocked
    /\ [][/\ ExperimentOnlyWhileLocked'
          /\ (/\ request'.type = "unlock_session"
              /\ request'.experiment \in Experiments
              /\ reply'.success) =>
                 /\ request'.session_id \in SessionIds
                 /\ Session[request'.session_id].locked
                 /\ Session[request'.session_id].experiment = request'.experiment
                 /\ ~Session'[request'.session_id].locked]_vars

\* C31 witness: a tenant's unlock_session has succeeded while the other
\* session is locked and held by another tenant.
C31_Witness ==
    /\ request.type = "unlock_session"
    /\ request.experiment \in Experiments
    /\ reply.success
    /\ UnlockedForm(Session[request.session_id])
    /\ \E other \in SessionIds \ {request.session_id} :
          /\ Session[other].locked
          /\ Session[other].experiment \in Experiments \ {request.experiment}

\* C32: a lease request adds at most one ValidateTask per session; a
\* session it unlocks was either locked with its unlock_time passed (TTL
\* sweep) or unlocked, eligible and too old (freshness sweep), never both.
C32_OneUnlockPerRequest ==
    [][request'.type \in LeaseTypes =>
          \A s \in SessionIds :
             /\ ValidateTask'[s] - ValidateTask[s] \in {0, 1}
             /\ ValidateTask'[s] = ValidateTask[s] + 1 =>
                   IF Session[s].locked
                   THEN Session[s].unlock_time <= now
                   ELSE s \in Eligible(DB) /\ TooOld(DB, s)]_vars

\* C32 witness: one lease request has reclaimed both sessions at the same
\* time, one that had been leased (it is in the tenant history) and one that
\* never was.
C32_Witness ==
    /\ request.type \in LeaseTypes
    /\ now >= TIMEOUT_EXP_SESSION
    /\ \A s \in SessionIds :
          /\ UnlockedForm(Session[s])
          /\ Session[s].unlock_time = now
          /\ ValidateTask[s] = 1
    /\ \E s \in SessionIds, other \in SessionIds :
          /\ \E r \in BagToSet(ExperimentWebsite) : r.session = s
          /\ \A r \in BagToSet(ExperimentWebsite) : r.session # other

====
